---- MODULE Spec2Model ----
(***************************************************************************)
(* Fitness-tracker module homework.py: the calculators Training, Running,  *)
(* SportsWalking and Swimming, the report InfoMessage, the dispatcher      *)
(* read_package, the function main and the script under                    *)
(* if __name__ == '__main__'.                                              *)
(*                                                                         *)
(* Numbers.  The sensor values are Python ints and are kept as TLA+        *)
(* integers in the fields of a calculator.  Every metric is a Python       *)
(* float, an IEEE 754 binary64 number, and is modelled bit for bit: a      *)
(* record [neg, m, e] for (-1)^neg * m * 2^e, every operation rounded to   *)
(* the nearest float as the processor rounds it.  The one operation whose  *)
(* rounding the language does not fix is  ** 2 , the C library's pow: the  *)
(* library is part of the state (pow_off), chosen when the module starts.  *)
(* None is [cls |-> "NoneType"], a raised exception is                     *)
(* [exc |-> its class name], and it propagates through every expression    *)
(* that uses it, as in Python.                                             *)
(*                                                                         *)
(* Text.  A message is modelled by the sequence of the five fields that    *)
(* MESSAGE.format substitutes, each formatted as the code formats it; the  *)
(* fixed Cyrillic text between the fields is not part of the model.        *)
(***************************************************************************)
EXTENDS Integers, Sequences, FiniteSets, TLC

VARIABLES
    name,            \* __name__ of the module: "__main__" (run) or "homework" (imported)
    pow_off,         \* the C library: the operands x for which its pow(x, 2.0) is not
                     \* the float nearest to the square but the one on its other side
    pc,              \* position of the script: loop, main, print, done, error; idle if imported
    idx,             \* 1-based index into packages of the record being processed
    out,             \* the lines printed so far
    info,            \* the script's local info (main, line 152)
    training,        \* the calculator the script or the caller holds: what the last
                     \* constructing call that returned gave, None before
    workout_type,    \* the script's loop variables (line 163); in an importer data is
    data,            \* the values training was built from, and workout_type the code
                     \* given to read_package when it has just returned training
    called,          \* the last operation called
    ret,             \* what it returned, or the exception it raised
    first_distance,  \* what the first get_distance() on training returned, None before
    first_speed,     \* what the first get_mean_speed() on training returned, None before
    ncalls           \* number of calls made with training since it was built

vars == <<name, pow_off, pc, idx, out, info, training, workout_type, data, called, ret,
          first_distance, first_speed, ncalls>>

---------------------------------------------------------------------------
(* Bounds of the model and the values the caller draws arguments from.     *)

MaxCalls == 3
MaxPrints == 2

Codes == {"SWM", "RUN", "WLK", "XYZ", "swm"}
Classes == {"Training", "Running", "SportsWalking", "Swimming"}
Variants == {"Running", "SportsWalking", "Swimming"}

\* the value sequences the caller passes: no or too few values, the lengths
\* the classes take, too many values, a zero duration in each length.  The
\* walk is one whose squared speed is within one float of a whole number,
\* 48014122, so that the floor of line 100 depends on the C library.
DataSeqs ==
    { <<>>,
      <<9000>>,
      <<9000, 1>>,
      <<9000, 1, 75>>,
      <<1513768569, 142, 75, 1>>,
      <<9000, 1, 75, 25, 40>>,
      <<9000, 1, 75, 25, 40, 0>>,
      <<9000, 0, 75>>,
      <<9000, 0, 75, 180>>,
      <<9000, 0, 75, 25, 40>> }

\* other steps or strokes, and other weights, a record could have
Actions == {30, 9000}
Weights == {0, 75}

---------------------------------------------------------------------------
(* Natural numbers of any size: the sequence of the digits in base 2^15,   *)
(* the lowest first, with no zero at the high end; 0 is << >>.  An         *)
(* operator that reads an operand more than once first binds its value     *)
(* (CHOOSE r \in {F(x) : x \in {operand}} : TRUE is F(operand) with the    *)
(* operand evaluated once).                                                *)

Base == 2^15

Abs(i) == IF i < 0 THEN -i ELSE i

Digit(a, i) == IF i <= Len(a) THEN a[i] ELSE 0

RECURSIVE BTrimTo(_, _)
BTrimTo(s, n) ==
    IF n = 0 THEN <<>>
    ELSE IF s[n] = 0 THEN BTrimTo(s, n - 1)
    ELSE SubSeq(s, 1, n)

BTrim(s) == CHOOSE r \in {BTrimTo(x, Len(x)) : x \in {s}} : TRUE

\* the natural number i < 2^31
BNat(i) == BTrim(<<i % Base, (i \div Base) % Base, i \div (Base * Base)>>)

\* the digits from the i-th of a + b + c, c a carry
RECURSIVE BAddAt(_, _, _, _)
BAddAt(a, b, i, c) ==
    IF i > Len(a) /\ i > Len(b) THEN (IF c = 0 THEN <<>> ELSE <<c>>)
    ELSE <<(Digit(a, i) + Digit(b, i) + c) % Base>>
         \o BAddAt(a, b, i + 1, (Digit(a, i) + Digit(b, i) + c) \div Base)

BAddC(a, b, c) == CHOOSE r \in {BAddAt(x, y, 1, c) : x \in {a}, y \in {b}} : TRUE

BAdd(a, b) == BAddC(a, b, 0)

\* the digits from the i-th of a - b - c for a >= b + c, c a borrow
RECURSIVE BSubAt(_, _, _, _)
BSubAt(a, b, i, c) ==
    IF i > Len(a) THEN <<>>
    ELSE <<(a[i] - Digit(b, i) - c) % Base>>
         \o BSubAt(a, b, i + 1, IF a[i] - Digit(b, i) - c < 0 THEN 1 ELSE 0)

BSub(a, b) == BTrim(CHOOSE r \in {BSubAt(x, y, 1, 0) : x \in {a}, y \in {b}} : TRUE)

\* -1, 0, 1 as a < b, a = b, a > b, comparing from digit i down
RECURSIVE BCmpAt(_, _, _)
BCmpAt(a, b, i) ==
    IF i = 0 THEN 0
    ELSE IF a[i] < b[i] THEN -1
    ELSE IF a[i] > b[i] THEN 1
    ELSE BCmpAt(a, b, i - 1)

BCmp(a, b) ==
    CHOOSE r \in {IF Len(x) < Len(y) THEN -1
                  ELSE IF Len(x) > Len(y) THEN 1
                  ELSE BCmpAt(x, y, Len(x)) : x \in {a}, y \in {b}} : TRUE

\* the digits from the i-th of a * k + c for a digit k
RECURSIVE BMulSmallAt(_, _, _, _)
BMulSmallAt(a, k, i, c) ==
    IF i > Len(a) THEN (IF c = 0 THEN <<>> ELSE <<c>>)
    ELSE <<(a[i] * k + c) % Base>> \o BMulSmallAt(a, k, i + 1, (a[i] * k + c) \div Base)

BMulSmall(a, k) ==
    BTrim(CHOOSE r \in {BMulSmallAt(x, y, 1, 0) : x \in {a}, y \in {k}} : TRUE)

\* a * (the digits of b from the j-th), a and b not 0
RECURSIVE BMulAt(_, _, _)
BMulAt(a, b, j) ==
    IF j = Len(b) THEN BMulSmall(a, b[j])
    ELSE BAdd(BMulSmall(a, b[j]), <<0>> \o BMulAt(a, b, j + 1))

BMul(a, b) ==
    CHOOSE r \in {IF x = <<>> \/ y = <<>> THEN <<>> ELSE BMulAt(x, y, 1)
                  : x \in {a}, y \in {b}} : TRUE

\* quotient and remainder of a by a digit d, from digit i down; r is the
\* remainder and q the quotient of the digits above
RECURSIVE BDivSmallAt(_, _, _, _, _)
BDivSmallAt(a, d, i, r, q) ==
    IF i = 0 THEN [q |-> BTrim(q), r |-> r]
    ELSE BDivSmallAt(a, d, i - 1, (r * Base + a[i]) % d,
                     <<(r * Base + a[i]) \div d>> \o q)

BDivSmall(a, d) ==
    CHOOSE r \in {BDivSmallAt(x, y, Len(x), 0, <<>>) : x \in {a}, y \in {d}} : TRUE

RECURSIVE SmallBitLen(_)
SmallBitLen(k) == IF k = 0 THEN 0 ELSE 1 + SmallBitLen(k \div 2)

BitLen(a) ==
    CHOOSE r \in {IF x = <<>> THEN 0 ELSE 15 * (Len(x) - 1) + SmallBitLen(x[Len(x)])
                  : x \in {a}} : TRUE

\* a * 2^k
BShl(a, k) ==
    CHOOSE r \in {IF x = <<>> THEN x
                  ELSE [i \in 1..(k \div 15) |-> 0] \o BMulSmall(x, 2^(k % 15))
                  : x \in {a}} : TRUE

\* a \div 2^k
BShr(a, k) ==
    CHOOSE r \in {IF k \div 15 >= Len(x) THEN <<>>
                  ELSE BDivSmall(SubSeq(x, k \div 15 + 1, Len(x)), 2^(k % 15)).q
                  : x \in {a}} : TRUE

\* a % 2^k
BLow(a, k) == CHOOSE r \in {BSub(x, BShl(BShr(x, k), k)) : x \in {a}} : TRUE

\* 1, 0, -1 as a % 2^k is more than, equal to or less than 2^(k - 1), k > 0
BHalfCmp(a, k) == BCmp(BLow(a, k), BShl(<<1>>, k - 1))

BIsOdd(a) == a # <<>> /\ a[1] % 2 = 1

\* the digit d with d * b <= R < (d + 1) * b, at most qh
RECURSIVE BQuotDigit(_, _, _)
BQuotDigit(R, b, qh) ==
    IF BCmp(BMulSmall(b, qh), R) > 0 THEN BQuotDigit(R, b, qh - 1) ELSE qh

\* the first guess of that digit, from the two high digits of R and the
\* high digit of b
BQuotGuess(R, b) ==
    CHOOSE g \in {IF g0 < Base THEN g0 ELSE Base - 1
                  : g0 \in {(Digit(R, Len(b) + 1) * Base + Digit(R, Len(b))) \div b[Len(b)]}} : TRUE

\* long division of a by b from digit i of a down; r is the remainder and
\* q the quotient of the digits above
RECURSIVE BDivModAt(_, _, _, _, _)
BDivModAt(a, b, i, r, q) ==
    IF i = 0 THEN [q |-> BTrim(q), r |-> r]
    ELSE CHOOSE v \in {BDivModAt(a, b, i - 1, BSub(R[1], BMulSmall(b, R[2])), <<R[2]>> \o q0)
                       : R \in {CHOOSE p \in {<<x, BQuotDigit(x, b, BQuotGuess(x, b))>>
                                               : x \in {BTrim(<<a[i]>> \o r)}} : TRUE},
                         q0 \in {q}} : TRUE

\* quotient and remainder of a by b # 0; both are first scaled by 2^s to
\* bring the high digit of b to at least Base / 2, which keeps the guess of
\* a quotient digit within 2 of the digit
BDivMod(a, b) ==
    CHOOSE v \in {[q |-> d.q, r |-> BShr(d.r, 15 - SmallBitLen(b[Len(b)]))]
                  : d \in {CHOOSE w \in {BDivModAt(x, y, Len(x), <<>>, <<>>)
                                         : x \in {BShl(a, 15 - SmallBitLen(b[Len(b)]))},
                                           y \in {BShl(b, 15 - SmallBitLen(b[Len(b)]))}} : TRUE}} : TRUE

\* the decimal digits of a, "" for 0
RECURSIVE BDec(_)
BDec(a) ==
    IF a = <<>> THEN ""
    ELSE CHOOSE s \in {BDec(x.q) \o ToString(x.r) : x \in {BDivSmall(a, 10)}} : TRUE

(* Floats: IEEE 754 binary64.  A float is [neg, m, e], the number          *)
(* (-1)^neg * m * 2^e with m a natural number of exactly Precision bits,   *)
(* or m = << >>, e = 0 for the zero of sign neg.  Every operation returns  *)
(* the exact result rounded to the nearest float, a tie to the even one.   *)
(* Infinities, NaN and subnormal numbers lie outside the values a          *)
(* calculator with integer fields below 2^31 reaches, and are not          *)
(* modelled.                                                               *)

Precision == 53

Zero(neg) == [neg |-> neg, m |-> <<>>, e |-> 0]

\* top or top + 1 (as up), with the exponent E, brought back to Precision bits
RoundTop(neg, top, up, E) ==
    CHOOSE r \in {IF BitLen(t) > Precision
                  THEN [neg |-> neg, m |-> BShr(t, 1), e |-> E + 1]
                  ELSE [neg |-> neg, m |-> t, e |-> E]
                  : t \in {IF up THEN BAddC(top, <<>>, 1) ELSE top}} : TRUE

\* M of more than Precision bits cut by sh bits
RoundCut(neg, M, E, sticky, sh) ==
    CHOOSE r \in {RoundTop(neg, top, c > 0 \/ (c = 0 /\ (sticky \/ BIsOdd(top))), E + sh)
                  : top \in {BShr(M, sh)}, c \in {BHalfCmp(M, sh)}} : TRUE

\* (-1)^neg * (M + s) * 2^E rounded, 0 <= s < 1 and sticky = (s > 0);
\* M has at least Precision + 2 bits whenever sticky
Round(neg, M, E, sticky) ==
    CHOOSE r \in {IF x = <<>> THEN Zero(neg)
                  ELSE IF L <= Precision
                  THEN [neg |-> neg, m |-> BShl(x, Precision - L), e |-> E - (Precision - L)]
                  ELSE RoundCut(neg, x, E, sticky, L - Precision)
                  : x \in {M}, L \in {BitLen(M)}} : TRUE

\* float(i) of an int i
Float(i) == Round(i < 0, BNat(Abs(i)), 0, FALSE)

IsZero(x) == x.m = <<>>

Neg(x) == [neg |-> ~x.neg, m |-> x.m, e |-> x.e]

\* -1, 0, 1 as |a| < |b|, |a| = |b|, |a| > |b|
CmpAbs(a, b) ==
    IF IsZero(a) THEN (IF IsZero(b) THEN 0 ELSE -1)
    ELSE IF IsZero(b) THEN 1
    ELSE IF BitLen(a.m) + a.e < BitLen(b.m) + b.e THEN -1
    ELSE IF BitLen(a.m) + a.e > BitLen(b.m) + b.e THEN 1
    ELSE BCmp(a.m, b.m)

\* a < b
LessV(a, b) ==
    IF IsZero(a) /\ IsZero(b) THEN FALSE
    ELSE IF a.neg # b.neg THEN (IF IsZero(a) THEN ~b.neg ELSE a.neg)
    ELSE IF a.neg THEN CmpAbs(a, b) > 0
    ELSE CmpAbs(a, b) < 0

LessF(a, b) == CHOOSE r \in {LessV(x, y) : x \in {a}, y \in {b}} : TRUE

\* A * 2^e + B * 2^e with the signs na and nb, A and B not 0
AddAligned(na, A, nb, B, e) ==
    IF na = nb THEN Round(na, BAdd(A, B), e, FALSE)
    ELSE CHOOSE r \in {IF c = 0 THEN Zero(FALSE)
                       ELSE IF c > 0 THEN Round(na, BSub(A, B), e, FALSE)
                       ELSE Round(nb, BSub(B, A), e, FALSE)
                       : c \in {BCmp(A, B)}} : TRUE

AddV(a, b) ==
    IF IsZero(a) /\ IsZero(b) THEN Zero(a.neg /\ b.neg)
    ELSE IF IsZero(a) THEN b
    ELSE IF IsZero(b) THEN a
    ELSE CHOOSE r \in {AddAligned(a.neg, A, b.neg, B, IF a.e < b.e THEN a.e ELSE b.e)
                       : A \in {BShl(a.m, a.e - (IF a.e < b.e THEN a.e ELSE b.e))},
                         B \in {BShl(b.m, b.e - (IF a.e < b.e THEN a.e ELSE b.e))}} : TRUE

AddF(a, b) == CHOOSE r \in {AddV(x, y) : x \in {a}, y \in {b}} : TRUE

SubF(a, b) == CHOOSE r \in {AddV(x, Neg(y)) : x \in {a}, y \in {b}} : TRUE

MulV(a, b) ==
    IF IsZero(a) \/ IsZero(b) THEN Zero(a.neg # b.neg)
    ELSE Round(a.neg # b.neg, BMul(a.m, b.m), a.e + b.e, FALSE)

\* the square M * 2^E cut by sh bits: exact if the cut bits are 0, else the
\* nearest float, or with other the float on the other side of the square
PowCut(M, E, sh, other) ==
    CHOOSE r \in {RoundTop(FALSE, top,
                           c # -2 /\ ((c > 0 \/ (c = 0 /\ BIsOdd(top))) # other),
                           E + sh)
                  : top \in {BShr(M, sh)},
                    c \in {IF BLow(M, sh) = <<>> THEN -2 ELSE BHalfCmp(M, sh)}} : TRUE

\* C pow(a, 2.0).  The C library returns the square if it is a float, and
\* else one of the two floats next to it, which one being the library's
\* matter: the nearest, or with other the other one
Pow2V(a, other) ==
    IF IsZero(a) THEN Zero(FALSE)
    ELSE CHOOSE r \in {PowCut(M, 2 * a.e, BitLen(M) - Precision, other)
                       : M \in {BMul(a.m, a.m)}} : TRUE

\* a / b for b # 0
DivV(a, b) ==
    IF IsZero(a) THEN Zero(a.neg # b.neg)
    ELSE CHOOSE r \in {Round(a.neg # b.neg, d.q, a.e - b.e - (Precision + 2), d.r # <<>>)
                       : d \in {BDivMod(BShl(a.m, Precision + 2), b.m)}} : TRUE

DivF(a, b) == CHOOSE r \in {DivV(x, y) : x \in {a}, y \in {b}} : TRUE

\* floor(a)
FloorV(a) ==
    IF IsZero(a) \/ a.e >= 0 THEN a
    ELSE CHOOSE r \in {Round(a.neg,
                             IF a.neg /\ BShl(ip, -a.e) # a.m THEN BAddC(ip, <<>>, 1) ELSE ip,
                             0, FALSE)
                       : ip \in {BShr(a.m, -a.e)}} : TRUE

\* C fmod(a, b) for b # 0: exact, with the sign of a
FmodV(a, b) ==
    IF IsZero(a) THEN a
    ELSE CHOOSE r \in {Round(a.neg, BDivMod(BShl(a.m, a.e - e), BShl(b.m, b.e - e)).r, e, FALSE)
                       : e \in {IF a.e < b.e THEN a.e ELSE b.e}} : TRUE

\* float_floor_div of CPython's floatobject.c, for wx # 0: the quotient
\* (vx - fmod(vx, wx)) / wx, less 1 if the remainder and wx differ in sign,
\* then brought to the nearest whole number
FloorDivSnap(vx, wx, quot) ==
    IF IsZero(quot) THEN Zero(vx.neg # wx.neg)
    ELSE CHOOSE r \in {IF LessF(DivF(Float(1), Float(2)), SubF(quot, fl))
                       THEN AddF(fl, Float(1))
                       ELSE fl
                       : fl \in {FloorV(quot)}} : TRUE

FloorDivRest(vx, wx, rest) ==
    CHOOSE r \in {FloorDivSnap(vx, wx, quot)
                  : quot \in {IF ~IsZero(rest) /\ wx.neg # rest.neg
                              THEN SubF(DivF(SubF(vx, rest), wx), Float(1))
                              ELSE DivF(SubF(vx, rest), wx)}} : TRUE

FloorDivV(vx, wx) ==
    CHOOSE r \in {FloorDivRest(vx, wx, rest) : rest \in {FmodV(vx, wx)}} : TRUE

\* the digits of '%.3f' % x: the exact value rounded to the nearest
\* thousandth, a tie to the even one
Thousandths(x) ==
    IF x.e >= 0 THEN BShl(BMulSmall(x.m, 1000), x.e)
    ELSE CHOOSE r \in {IF c > 0 \/ (c = 0 /\ BIsOdd(q)) THEN BAddC(q, <<>>, 1) ELSE q
                       : q \in {BShr(BMulSmall(x.m, 1000), -x.e)},
                         c \in {BHalfCmp(BMulSmall(x.m, 1000), -x.e)}} : TRUE

Fixed3(x) ==
    CHOOSE s \in {(IF x.neg THEN "-" ELSE "") \o (IF d.q = <<>> THEN "0" ELSE BDec(d.q))
                  \o "." \o (IF d.r < 10 THEN "00" ELSE IF d.r < 100 THEN "0" ELSE "")
                  \o ToString(d.r)
                  : d \in {BDivSmall(Thousandths(x), 1000)}} : TRUE

---------------------------------------------------------------------------
(* Values and the arithmetic of the expressions.                           *)

None == [cls |-> "NoneType"]
Raise(e) == [exc |-> e]
IsExc(v) == "exc" \in DOMAIN v
IsNum(v) == "m" \in DOMAIN v

(* Python evaluates both operands, the left one first, before it applies   *)
(* the operator; an exception in an operand is the result, the left        *)
(* operand's first.  An int operand is converted by the caller, Float(i).  *)
Add(a, b) ==
    CHOOSE r \in {IF IsExc(x) THEN x ELSE IF IsExc(y) THEN y ELSE AddV(x, y)
                  : x \in {a}, y \in {b}} : TRUE

Sub(a, b) ==
    CHOOSE r \in {IF IsExc(x) THEN x ELSE IF IsExc(y) THEN y ELSE AddV(x, Neg(y))
                  : x \in {a}, y \in {b}} : TRUE

Mul(a, b) ==
    CHOOSE r \in {IF IsExc(x) THEN x ELSE IF IsExc(y) THEN y ELSE MulV(x, y)
                  : x \in {a}, y \in {b}} : TRUE

Div(a, b) ==
    CHOOSE r \in {IF IsExc(x) THEN x ELSE IF IsExc(y) THEN y
                  ELSE IF IsZero(y) THEN Raise("ZeroDivisionError")
                  ELSE DivV(x, y)
                  : x \in {a}, y \in {b}} : TRUE

\* a // b
FloorDiv(a, b) ==
    CHOOSE r \in {IF IsExc(x) THEN x ELSE IF IsExc(y) THEN y
                  ELSE IF IsZero(y) THEN Raise("ZeroDivisionError")
                  ELSE FloorDivV(x, y)
                  : x \in {a}, y \in {b}} : TRUE

\* a ** 2 is pow(a, 2.0) of the C library, which the language leaves to
\* the build: the float nearest to the square, or, for the operands in libm,
\* the float on the other side of the square
Pow2(a, libm) ==
    CHOOSE r \in {IF IsExc(x) THEN x ELSE Pow2V(x, x \in libm) : x \in {a}} : TRUE

\* the float that the decimal literal n/d denotes, n and d below 2^31
Decimal(n, d) == DivV(Float(n), Float(d))

---------------------------------------------------------------------------
(* Class constants.                                                        *)

M_IN_KM == 1000
HOUR == 60
COEF_CALORIE_1 == 18
COEF_CALORIE_2 == 20
COEF_CALORIE_01 == Decimal(35, 1000)
COEF_CALORIE_02 == Decimal(29, 1000)
COEF_CALORIE_001 == Decimal(11, 10)
COEF_CALORIE_002 == 2

Training_LEN_STEP == Decimal(65, 100)
Swimming_LEN_STEP == Decimal(138, 100)

\* self.LEN_STEP: Training.LEN_STEP = 0.65, overridden by Swimming.LEN_STEP = 1.38
LEN_STEP(cls) == IF cls = "Swimming" THEN Swimming_LEN_STEP ELSE Training_LEN_STEP

---------------------------------------------------------------------------
(* Construction: the __init__ that @dataclass generates.                   *)

\* the positional fields of each class, in the order of the generated __init__
FieldNames(cls) ==
    CASE cls = "SportsWalking" -> <<"action", "duration", "weight", "height">>
      [] cls = "Swimming" -> <<"action", "duration", "weight", "length_pool", "count_pool">>
      [] OTHER -> <<"action", "duration", "weight">>

\* Construct with duration and weight bound in the wrong order
Construct_swapped(cls, args) ==
    IF Len(args) # Len(FieldNames(cls)) THEN Raise("TypeError")
    ELSE CASE cls = "SportsWalking" ->
                [cls |-> cls, action |-> args[1], duration |-> args[3],
                 weight |-> args[2], height |-> args[4]]
           [] cls = "Swimming" ->
                [cls |-> cls, action |-> args[1], duration |-> args[3],
                 weight |-> args[2], length_pool |-> args[4], count_pool |-> args[5]]
           [] OTHER ->
                [cls |-> cls, action |-> args[1], duration |-> args[3],
                 weight |-> args[2]]

\* Construct with missing values defaulted to 0 and surplus values ignored
Construct_lenient(cls, args) ==
    LET a == [i \in 1..5 |-> IF i <= Len(args) THEN args[i] ELSE 0]
    IN  CASE cls = "SportsWalking" ->
                [cls |-> cls, action |-> a[1], duration |-> a[2],
                 weight |-> a[3], height |-> a[4]]
          [] cls = "Swimming" ->
                [cls |-> cls, action |-> a[1], duration |-> a[2],
                 weight |-> a[3], length_pool |-> a[4], count_pool |-> a[5]]
          [] OTHER ->
                [cls |-> cls, action |-> a[1], duration |-> a[2],
                 weight |-> a[3]]

\* cls(*args): TypeError on a missing or a surplus positional argument
Construct(cls, args) ==
    IF Len(args) # Len(FieldNames(cls)) THEN Raise("TypeError")
    ELSE CASE cls = "SportsWalking" ->
                [cls |-> cls, action |-> args[1], duration |-> args[2],
                 weight |-> args[3], height |-> args[4]]
           [] cls = "Swimming" ->
                [cls |-> cls, action |-> args[1], duration |-> args[2],
                 weight |-> args[3], length_pool |-> args[4], count_pool |-> args[5]]
           [] OTHER ->
                [cls |-> cls, action |-> args[1], duration |-> args[2],
                 weight |-> args[3]]

traning_types == [SWM |-> "Swimming", RUN |-> "Running", WLK |-> "SportsWalking"]

\* read_package with an unknown code falling back to Running
read_package_default(wt, d) ==
    IF wt \notin DOMAIN traning_types THEN Construct("Running", d)
    ELSE Construct(traning_types[wt], d)

read_package(wt, d) ==
    IF wt \notin DOMAIN traning_types THEN Raise("KeyError")
    ELSE Construct(traning_types[wt], d)

---------------------------------------------------------------------------
(* The metrics.  self is a calculator; the method that runs is the one of  *)
(* self.cls.  A method that reaches  ** 2  takes the C library as libm.    *)

\* get_distance with a result that depends on the calls made before
get_distance_hidden(self) ==
    Div(Mul(Float(self.action + ncalls), LEN_STEP(self.cls)), Float(M_IN_KM))

get_distance(self) ==
    Div(Mul(Float(self.action), LEN_STEP(self.cls)), Float(M_IN_KM))

\* get_mean_speed with Swimming guarding a zero duration on its own
get_mean_speed_guarded(self) ==
    IF self.cls = "Swimming"
    THEN IF self.duration = 0 THEN Float(0)
         ELSE Div(Div(Float(self.length_pool * self.count_pool), Float(M_IN_KM)),
                  Float(self.duration))
    ELSE Div(get_distance(self), Float(self.duration))

\* get_mean_speed without the override of Swimming
get_mean_speed_base(self) ==
    Div(get_distance(self), Float(self.duration))

get_mean_speed(self) ==
    IF self.cls = "Swimming"
    THEN Div(Div(Float(self.length_pool * self.count_pool), Float(M_IN_KM)),
             Float(self.duration))
    ELSE Div(get_distance(self), Float(self.duration))

Running_get_spent_calories(self) ==
    Mul(Mul(Div(Mul(Sub(Mul(Float(COEF_CALORIE_1), get_mean_speed(self)),
                        Float(COEF_CALORIE_2)),
                    Float(self.weight)),
                Float(M_IN_KM)),
            Float(self.duration)),
        Float(HOUR))

\* the walking formula with / in place of //
SportsWalking_get_spent_calories_truediv(self, libm) ==
    Mul(Mul(Add(Mul(COEF_CALORIE_01, Float(self.weight)),
                Mul(Mul(Div(Pow2(get_mean_speed(self), libm), Float(self.height)),
                        COEF_CALORIE_02),
                    Float(self.weight))),
            Float(self.duration)),
        Float(HOUR))

SportsWalking_get_spent_calories(self, libm) ==
    Mul(Mul(Add(Mul(COEF_CALORIE_01, Float(self.weight)),
                Mul(Mul(FloorDiv(Pow2(get_mean_speed(self), libm), Float(self.height)),
                        COEF_CALORIE_02),
                    Float(self.weight))),
            Float(self.duration)),
        Float(HOUR))

Swimming_get_spent_calories(self) ==
    Mul(Mul(Add(get_mean_speed(self), COEF_CALORIE_001), Float(COEF_CALORIE_002)),
        Float(self.weight))

\* Training.get_spent_calories is  pass : it returns None
get_spent_calories(self, libm) ==
    CASE self.cls = "Running" -> Running_get_spent_calories(self)
      [] self.cls = "SportsWalking" -> SportsWalking_get_spent_calories(self, libm)
      [] self.cls = "Swimming" -> Swimming_get_spent_calories(self)
      [] OTHER -> None

\* show_training_info with distance and speed passed in each other's place
show_training_info_swapped(self, libm) ==
    CHOOSE r \in {IF IsExc(distance) THEN distance
                  ELSE IF IsExc(speed) THEN speed
                  ELSE IF IsExc(calories) THEN calories
                  ELSE [cls |-> "InfoMessage", training_type |-> self.cls,
                        duration |-> self.duration, distance |-> speed,
                        speed |-> distance, calories |-> calories]
                  : distance \in {get_distance(self)},
                    speed \in {get_mean_speed(self)},
                    calories \in {get_spent_calories(self, libm)}} : TRUE

\* the arguments of InfoMessage(...) are evaluated left to right
show_training_info(self, libm) ==
    CHOOSE r \in {IF IsExc(distance) THEN distance
                  ELSE IF IsExc(speed) THEN speed
                  ELSE IF IsExc(calories) THEN calories
                  ELSE [cls |-> "InfoMessage", training_type |-> self.cls,
                        duration |-> self.duration, distance |-> distance,
                        speed |-> speed, calories |-> calories]
                  : distance \in {get_distance(self)},
                    speed \in {get_mean_speed(self)},
                    calories \in {get_spent_calories(self, libm)}} : TRUE

---------------------------------------------------------------------------
(* The message.                                                            *)

\* "{:.3f}".format(x) for a float x; TypeError for None
Fmt3(x) ==
    CHOOSE r \in {IF ~IsNum(v) THEN Raise("TypeError")
                  ELSE [cls |-> "str", text |-> Fixed3(v)]
                  : v \in {x}} : TRUE

\* the int duration is formatted as the float it converts to
get_message(self) ==
    CHOOSE r \in {IF \E i \in 1..4 : IsExc(f[i])
                  THEN f[CHOOSE i \in 1..4 : IsExc(f[i]) /\ \A j \in 1..(i - 1) : ~IsExc(f[j])]
                  ELSE [cls |-> "str",
                        text |-> <<self.training_type, f[1].text, f[2].text,
                                   f[3].text, f[4].text>>]
                  : f \in {<<Fmt3(Float(self.duration)), Fmt3(self.distance),
                             Fmt3(self.speed), Fmt3(self.calories)>>}} : TRUE

\* main(training), lines 152-153: the line printed, or the exception raised
main(t, libm) ==
    CHOOSE r \in {IF IsExc(i) THEN i ELSE get_message(i)
                  : i \in {show_training_info(t, libm)}} : TRUE

---------------------------------------------------------------------------
(* The script: for workout_type, data in packages: read_package, main.     *)

\* the records in another order
packages_reordered ==
    << [workout_type |-> "RUN", data |-> <<15000, 1, 75>>],
       [workout_type |-> "SWM", data |-> <<720, 1, 80, 25, 40>>],
       [workout_type |-> "WLK", data |-> <<9000, 1, 75, 180>>] >>

packages == << [workout_type |-> "SWM", data |-> <<720, 1, 80, 25, 40>>],
               [workout_type |-> "RUN", data |-> <<15000, 1, 75>>],
               [workout_type |-> "WLK", data |-> <<9000, 1, 75, 180>>] >>

\* the operands  ** 2  is applied to, the mean speeds of the walking records:
\* those of packages in a run of the script, those a caller builds else
PowOperands(n) ==
    {s \in {get_mean_speed(Construct("SportsWalking", d)) :
               d \in {x \in IF n = "__main__"
                            THEN {packages[i].data : i \in 1..Len(packages)}
                            ELSE DataSeqs
                         : Len(x) = Len(FieldNames("SportsWalking"))}}
        : IsNum(s)}

Init ==
    /\ name \in {"__main__", "homework"}
    /\ pc = IF name = "__main__" THEN "loop" ELSE "idle"
    /\ idx = 1
    /\ out = <<>>
    /\ info = None
    /\ training = None
    /\ workout_type = ""
    /\ data = <<>>
    /\ called = ""
    /\ ret = None
    /\ first_distance = None
    /\ first_speed = None
    /\ ncalls = 0
    /\ pow_off \in SUBSET PowOperands(name)

\* line 164: training = read_package(workout_type, data)
ScriptReadPackage ==
    /\ name = "__main__"
    /\ pc = "loop"
    /\ idx <= Len(packages)
    /\ workout_type' = packages[idx].workout_type
    /\ data' = packages[idx].data
    /\ \E r \in {read_package(packages[idx].workout_type, packages[idx].data)} :
           IF IsExc(r)
           THEN /\ pc' = "error"
                /\ ret' = r
                /\ UNCHANGED training
           ELSE /\ pc' = "main"
                /\ training' = r
                /\ UNCHANGED ret
    /\ UNCHANGED <<name, pow_off, idx, out, info, called, first_distance, first_speed, ncalls>>

\* line 152: info = Training.show_training_info(training)
ScriptShowTrainingInfo ==
    /\ name = "__main__"
    /\ pc = "main"
    /\ \E r \in {show_training_info(training, pow_off)} :
           IF IsExc(r)
           THEN /\ pc' = "error"
                /\ ret' = r
                /\ UNCHANGED info
           ELSE /\ pc' = "print"
                /\ info' = r
                /\ UNCHANGED ret
    /\ UNCHANGED <<name, pow_off, idx, out, training, workout_type, data, called,
                   first_distance, first_speed, ncalls>>

\* line 153: print(InfoMessage.get_message(info)), then the next record
ScriptPrint ==
    /\ name = "__main__"
    /\ pc = "print"
    /\ \E r \in {get_message(info)} :
           IF IsExc(r)
           THEN /\ pc' = "error"
                /\ ret' = r
                /\ UNCHANGED <<out, idx>>
           ELSE /\ out' = Append(out, r.text)
                /\ idx' = idx + 1
                /\ pc' = IF idx + 1 > Len(packages) THEN "done" ELSE "loop"
                /\ UNCHANGED ret
    /\ UNCHANGED <<name, pow_off, info, training, workout_type, data, called,
                   first_distance, first_speed, ncalls>>

---------------------------------------------------------------------------
(* The module imported: a caller uses its functions and classes.  It      *)
(* builds a calculator at any time, whatever it has called and printed    *)
(* before, and calls the methods of the calculator it holds: the one the  *)
(* last constructing call that returned gave it.                          *)

\* the caller of the imported module
Imported == name = "homework"

\* the state after an expression that builds a calculator: what is printed
\* stays, and no call has been made with the new calculator.  If the
\* expression raises, nothing is assigned: the caller still holds the
\* calculator built before, with the calls made with it
Built(op, wt, d, r) ==
    /\ called' = op
    /\ ret' = r
    /\ IF IsExc(r)
       THEN /\ workout_type' = ""
            /\ UNCHANGED <<training, data, first_distance, first_speed, ncalls>>
       ELSE /\ workout_type' = wt
            /\ data' = d
            /\ training' = r
            /\ first_distance' = None
            /\ first_speed' = None
            /\ ncalls' = 0
    /\ UNCHANGED <<name, pow_off, pc, idx, out, info>>

CallReadPackage ==
    Imported /\ \E wt \in Codes, d \in DataSeqs : Built("read_package", wt, d, read_package(wt, d))

\* a class called directly: Swimming(720, 1, 80, 25, 40)
CallConstructor ==
    Imported /\ \E c \in Classes, d \in DataSeqs : Built(c, "", d, Construct(c, d))

\* the caller holds a calculator and makes one more call with it
Callable ==
    /\ name = "homework"
    /\ training # None
    /\ ncalls < MaxCalls

\* the state after a method of training, which assigns no field
Returned(op, r) ==
    /\ called' = op
    /\ ret' = r
    /\ ncalls' = ncalls + 1
    /\ first_distance' = IF op = "get_distance" /\ first_distance = None
                         THEN r ELSE first_distance
    /\ first_speed' = IF op = "get_mean_speed" /\ first_speed = None
                      THEN r ELSE first_speed
    /\ workout_type' = ""
    /\ UNCHANGED <<name, pow_off, pc, idx, out, info, training, data>>

CallGetDistance ==
    Callable /\ \E r \in {get_distance(training)} : Returned("get_distance", r)

CallGetMeanSpeed ==
    Callable /\ \E r \in {get_mean_speed(training)} : Returned("get_mean_speed", r)

CallGetSpentCalories ==
    Callable /\ \E r \in {get_spent_calories(training, pow_off)} : Returned("get_spent_calories", r)

CallShowTrainingInfo ==
    Callable /\ \E r \in {show_training_info(training, pow_off)} : Returned("show_training_info", r)

\* get_message of the report just built
CallGetMessage ==
    /\ name = "homework"
    /\ called = "show_training_info"
    /\ ~IsExc(ret)
    /\ called' = "get_message"
    /\ ret' = get_message(ret)
    /\ UNCHANGED <<name, pow_off, pc, idx, out, info, training, workout_type, data,
                   first_distance, first_speed, ncalls>>

\* main(training): prints one line and returns None, or raises and prints
\* nothing; the output kept is capped at MaxPrints lines
CallMain ==
    /\ Callable
    /\ called' = "main"
    /\ ncalls' = ncalls + 1
    /\ \E r \in {main(training, pow_off)} :
           IF IsExc(r)
           THEN /\ ret' = r
                /\ UNCHANGED out
           ELSE /\ Len(out) < MaxPrints
                /\ ret' = None
                /\ out' = Append(out, r.text)
    /\ workout_type' = ""
    /\ UNCHANGED <<name, pow_off, pc, idx, info, training, data, first_distance, first_speed>>

Next ==
    \/ ScriptReadPackage
    \/ ScriptShowTrainingInfo
    \/ ScriptPrint
    \/ CallReadPackage
    \/ CallConstructor
    \/ CallGetDistance
    \/ CallGetMeanSpeed
    \/ CallGetSpentCalories
    \/ CallShowTrainingInfo
    \/ CallGetMessage
    \/ CallMain

Spec == Init /\ [][Next]_vars

\* the interpreter runs the script's statements one after another
FairSpec ==
    /\ Spec
    /\ WF_vars(ScriptReadPackage)
    /\ WF_vars(ScriptShowTrainingInfo)
    /\ WF_vars(ScriptPrint)

---------------------------------------------------------------------------
(* The dispatcher.                                                         *)

Recognized == {"SWM", "RUN", "WLK"}

\* the result of the last read_package: the script binds it to training,
\* a caller of the imported module receives it
ReadPackageDone ==
    \/ name = "__main__" /\ pc \in {"main", "print"}
    \/ name = "homework" /\ called = "read_package"

ReadPackageResult == IF name = "__main__" THEN training ELSE ret

\* the variant the specification maps each code to, and its field count
MappedVariant(wt) ==
    CASE wt = "SWM" -> "Swimming"
      [] wt = "RUN" -> "Running"
      [] wt = "WLK" -> "SportsWalking"

FieldCount(wt) ==
    CASE wt = "SWM" -> 5
      [] wt = "RUN" -> 3
      [] wt = "WLK" -> 4

\* the calculator of variant c whose fields are the values of d, in order
Bound(c, d) ==
    CASE c = "Swimming" ->
            [cls |-> "Swimming", action |-> d[1], duration |-> d[2], weight |-> d[3],
             length_pool |-> d[4], count_pool |-> d[5]]
      [] c = "SportsWalking" ->
            [cls |-> "SportsWalking", action |-> d[1], duration |-> d[2],
             weight |-> d[3], height |-> d[4]]
      [] c = "Running" ->
            [cls |-> "Running", action |-> d[1], duration |-> d[2], weight |-> d[3]]

\* C1: for a recognized code and a value sequence of the variant's length,
\* read_package returns a calculator of exactly the mapped variant whose
\* fields are the values in the order action, duration, weight, then height
\* or length_pool, count_pool; it equals the variant constructed directly
\* from the same values, field by field and metric by metric.
C1_ReadPackageBuildsMappedVariant ==
    /\ (/\ ReadPackageDone
        /\ workout_type \in Recognized
        /\ Len(data) = FieldCount(workout_type))
       => LET r == ReadPackageResult
              direct == Construct(MappedVariant(workout_type), data)
          IN  /\ r = Bound(MappedVariant(workout_type), data)
              /\ r = direct
              /\ get_distance(r) = get_distance(direct)
              /\ get_mean_speed(r) = get_mean_speed(direct)
              /\ get_spent_calories(r, pow_off) = get_spent_calories(direct, pow_off)
              /\ show_training_info(r, pow_off) = show_training_info(direct, pow_off)
    /\ (name = "homework" /\ called = "read_package")
       => \A wt \in Recognized, d \in DataSeqs :
              Len(d) = FieldCount(wt) => read_package(wt, d) = Bound(MappedVariant(wt), d)

C1_Witness ==
    /\ name = "homework"
    /\ called = "read_package"
    /\ workout_type = "SWM"
    /\ data = <<9000, 1, 75, 25, 40>>
    /\ ret = [cls |-> "Swimming", action |-> 9000, duration |-> 1, weight |-> 75,
              length_pool |-> 25, count_pool |-> 40]

\* C2: for a code that is not SWM, RUN or WLK, and a value sequence of any
\* length, read_package raises the unknown-activity error (KeyError in this
\* code) and returns no calculator: the caller receives the error, and a
\* calculator read_package returns was asked for with a recognized code.
C2_UnknownCodeRaises ==
    (name = "homework" /\ called = "read_package")
    => /\ \A wt \in Codes \ Recognized, d \in DataSeqs :
              read_package(wt, d) = Raise("KeyError")
       /\ IsExc(ret) \/ (ret = training /\ workout_type \in Recognized)

\* the call raised KeyError after two lines were printed, and the caller still
\* holds the calculator built before
C2_Witness ==
    /\ called = "read_package"
    /\ ret = Raise("KeyError")
    /\ Len(out) = 2
    /\ training = Bound("Running", <<9000, 1, 75>>)

\* C3: for a recognized code and a value sequence whose length differs from
\* the variant's field count (3 Running, 4 race walking, 5 Swimming), too few
\* or too many, read_package raises the invalid-record error (the TypeError
\* of the generated __init__) and returns no calculator: a calculator
\* read_package returns was asked for with as many values as its variant has
\* fields.
C3_WrongArityRaises ==
    (name = "homework" /\ called = "read_package")
    => /\ \A wt \in Recognized, d \in DataSeqs :
              Len(d) # FieldCount(wt) => read_package(wt, d) = Raise("TypeError")
       /\ IsExc(ret) \/ (ret = training /\ (workout_type \in Recognized
                                             => Len(data) = FieldCount(workout_type)))

\* the call raised TypeError after a line was printed, and the caller still
\* holds the calculator built before, with the call made with it
C3_Witness ==
    /\ called = "read_package"
    /\ ret = Raise("TypeError")
    /\ Len(out) = 1
    /\ training = Bound("SportsWalking", <<1513768569, 142, 75, 1>>)
    /\ ncalls = 1

---------------------------------------------------------------------------
(* The metrics.                                                            *)

\* the outcome of method m on calculator t
Outcome(m, t, libm) ==
    CASE m = "get_distance" -> get_distance(t)
      [] m = "get_mean_speed" -> get_mean_speed(t)
      [] m = "get_spent_calories" -> get_spent_calories(t, libm)
      [] m = "show_training_info" -> show_training_info(t, libm)

\* every record of a variant with duration = 0 that the input sets give
ZeroDurationRecords ==
    {Construct(p[1], p[2]) :
        p \in {x \in Variants \X DataSeqs :
                  Len(x[2]) = Len(FieldNames(x[1])) /\ x[2][2] = 0}}

\* the outcomes of each method that reads the duration, over those records
ZeroDurationOutcomes ==
    [m \in {"get_mean_speed", "get_spent_calories", "show_training_info"} |->
        {Outcome(m, t, pow_off) : t \in ZeroDurationRecords}]

\* C4: for a record with duration = 0, get_mean_speed, get_spent_calories
\* and show_training_info have the same kind of outcome in Running, race
\* walking and Swimming (here the failure ZeroDivisionError): no variant
\* returns an ordinary value or report where another fails.
C4_ZeroDurationUniform ==
    (/\ training.cls \in Variants
     /\ training.duration = 0
     /\ called \in {"get_mean_speed", "get_spent_calories", "show_training_info"})
    => /\ IsExc(ret)
       /\ ZeroDurationOutcomes[called] = {ret}

C4_Witness ==
    /\ training.cls = "Swimming"
    /\ training.duration = 0
    /\ called = "show_training_info"
    /\ ret = Raise("ZeroDivisionError")

\* C5: two Swimming records that agree on length_pool, count_pool and
\* duration (> 0) have the same get_mean_speed(), whatever their action and
\* weight: length_pool * count_pool / 1000 / duration.
C5_SwimmingSpeedIgnoresAction ==
    (/\ training.cls = "Swimming"
     /\ training.duration > 0
     /\ called = "get_mean_speed")
    => /\ ret = Div(Div(Float(training.length_pool * training.count_pool), Float(1000)),
                    Float(training.duration))
       /\ \A a \in Actions, w \in Weights :
              get_mean_speed([training EXCEPT !.action = a, !.weight = w]) = ret

C5_Witness ==
    /\ training.cls = "Swimming"
    /\ training.action = 9000
    /\ training.duration = 1
    /\ training.length_pool = 25
    /\ training.count_pool = 40
    /\ called = "get_mean_speed"
    /\ ret = Float(1)

\* C6: for every variant and every record with duration > 0, after any
\* sequence of calls of the four methods, a call of get_distance() or of
\* get_mean_speed() returns what its first call returned, and the record's
\* fields are as constructed.
C6_RepeatedCallsAgree ==
    (/\ name = "homework"
     /\ training.cls \in Variants
     /\ training.duration > 0)
    => /\ training = Bound(training.cls, data)
       /\ called = "get_distance" => ret = first_distance
       /\ called = "get_mean_speed" => ret = first_speed

C6_Witness ==
    /\ training.cls = "SportsWalking"
    /\ training.duration > 0
    /\ ncalls = MaxCalls
    /\ called = "get_mean_speed"
    /\ first_speed = ret
    /\ first_distance # None
    /\ IsNum(ret)

\* a <= b on floats
Leq(a, b) == ~LessF(b, a)

\* the walking formula with the whole float q in place of the floored
\* quotient, evaluated in floats in the order of the expression
WalkingCalories(t, q) ==
    Mul(Mul(Add(Mul(COEF_CALORIE_01, Float(t.weight)),
                Mul(Mul(q, COEF_CALORIE_02), Float(t.weight))),
            Float(t.duration)),
        Float(60))

\* the calories of walking record t are the formula for the greatest whole
\* q with q * height <= mean_speed^2, mean_speed^2 being the float that
\* ** 2 returns; q is looked for next to the rounded quotient
WalkingFloor(t, r) ==
    \E sq \in {Pow2(Div(Div(Mul(Float(t.action), Training_LEN_STEP), Float(1000)),
                        Float(t.duration)), pow_off)},
       h \in {Float(t.height)} :
        \E c \in {FloorV(DivV(sq, h))} :
            \E q \in {Sub(c, Float(1)), c, Add(c, Float(1))} :
                /\ FloorV(q) = q
                /\ Leq(Mul(q, h), sq)
                /\ LessF(sq, Mul(Add(q, Float(1)), h))
                /\ r = WalkingCalories(t, q)

\* the calories get_spent_calories() has just returned: to the caller of
\* the imported module, or to show_training_info in the script
Calories == IF name = "__main__" THEN info.calories ELSE ret

\* get_spent_calories() has just returned for a walking record
WalkingReturned ==
    /\ training.cls = "SportsWalking"
    /\ training.duration > 0
    /\ training.height > 0
    /\ \/ name = "homework" /\ called = "get_spent_calories"
       \/ name = "__main__" /\ pc = "print"

\* C7, as claimed: for a race-walking record with duration > 0 and height
\* > 0, get_spent_calories() is (0.035 * weight + q * 0.029 * weight) *
\* duration * 60 with q the floor of mean_speed^2 / height; for
\* (9000, 1, 75, 180) q is 0 and the calories are 157.5.
C7_WalkingCaloriesExample ==
    WalkingReturned
    => /\ WalkingFloor(training, Calories)
       /\ training = Bound("SportsWalking", <<9000, 1, 75, 180>>)
          => Calories = Decimal(1575, 10)

\* C7, amended: for a race-walking record with duration > 0 and height > 0,
\* get_spent_calories() is (0.035 * weight + q * 0.029 * weight) * duration
\* * 60 evaluated in floats, with q the floor of mean_speed^2 / height and
\* mean_speed^2 the float that ** 2 returns; for (9000, 1, 75, 180) q is 0
\* and the calories are the float next above 157.5, 157.5 + 2^-45, which
\* prints as 157.500.
C7_WalkingCaloriesFloor ==
    WalkingReturned
    => /\ WalkingFloor(training, Calories)
       /\ training = Bound("SportsWalking", <<9000, 1, 75, 180>>)
          => /\ Calories = WalkingCalories(training, Float(0))
             /\ Sub(Calories, Decimal(1575, 10)) = Round(FALSE, <<1>>, -45, FALSE)
             /\ Fmt3(Calories).text = "157.500"

\* the floor is taken of the square the C library returned: here 48014121,
\* of a square that is 48014122 to the nearest float
C7_Witness ==
    /\ WalkingReturned
    /\ training = Bound("SportsWalking", <<1513768569, 142, 75, 1>>)
    /\ get_mean_speed(training) \in pow_off
    /\ ret = WalkingCalories(training, Float(48014121))

\* C9, as claimed: in every report of any variant with duration > 0 the
\* mean speed is the reported distance divided by the reported duration.
C9_SpeedIsDistanceOverDuration ==
    (/\ called = "show_training_info"
     /\ training.cls \in Variants
     /\ ~IsExc(ret)
     /\ training.duration > 0)
    => ret.speed = Div(ret.distance, Float(ret.duration))

\* C9, amended: in every report of Running or race walking with duration
\* > 0 the mean speed is the reported distance divided by the reported
\* duration; in a report of Swimming it is length_pool * count_pool / 1000
\* / duration, whatever the reported distance.
C9_SpeedPerVariant ==
    (/\ called = "show_training_info"
     /\ training.cls \in Variants
     /\ ~IsExc(ret)
     /\ training.duration > 0)
    => /\ ret.duration = training.duration
       /\ ret.distance = Div(Mul(Float(training.action),
                                 IF training.cls = "Swimming"
                                 THEN Swimming_LEN_STEP ELSE Training_LEN_STEP),
                             Float(1000))
       /\ IF training.cls = "Swimming"
          THEN ret.speed = Div(Div(Float(training.length_pool * training.count_pool),
                                   Float(1000)),
                               Float(training.duration))
          ELSE ret.speed = Div(ret.distance, Float(ret.duration))

C9_Witness ==
    /\ called = "show_training_info"
    /\ training = Bound("Swimming", <<9000, 1, 75, 25, 40>>)
    /\ Fmt3(ret.distance).text = "12.420"
    /\ ret.speed = Float(1)

\* C10: the base calculator cannot be used on its own to produce a report,
\* and every report a constructible calculator produces has a numeric
\* calories value.
C10_NoReportWithoutCalories ==
    (name = "homework" /\ called = "show_training_info" /\ ~IsExc(ret))
    => /\ training.cls \in Variants
       /\ IsNum(ret.calories)

---------------------------------------------------------------------------
(* The script.                                                             *)

ExpectedOutput ==
    << <<"Swimming", "1.000", "0.994", "1.000", "336.000">>,
       <<"Running", "1.000", "9.750", "9.750", "699.750">>,
       <<"SportsWalking", "1.000", "5.850", "5.850", "157.500">> >>

\* one line per record processed, in the order of the records, none partial
ScriptOutputInOrder ==
    name = "__main__"
    => /\ pc # "error"
       /\ idx \in 1..4
       /\ Len(out) = idx - 1
       /\ out = SubSeq(ExpectedOutput, 1, idx - 1)
       /\ pc \in {"main", "print"} => training.cls = MappedVariant(packages[idx].workout_type)
       /\ pc = "print" => /\ info.training_type = training.cls
                          /\ IsNum(info.distance)
                          /\ IsNum(info.speed)
                          /\ IsNum(info.calories)
       /\ pc = "done" <=> idx = 4

\* a line is printed only by the print step, after the record's report is built
ScriptPrintsAfterMetrics ==
    (name = "__main__" /\ out' # out)
    => /\ pc = "print"
       /\ out' = Append(out, get_message(info).text)
       /\ info = show_training_info(training, pow_off)

\* C8: a run processes the three hardcoded records in the order SWM, RUN,
\* WLK and terminates normally with exactly three output lines, one per
\* record in that order; a record's line is printed only after its
\* distance, speed and calories are computed, and each record contributes
\* exactly one whole line.
C8_ScriptRun ==
    /\ []ScriptOutputInOrder
    /\ [][ScriptPrintsAfterMetrics]_vars
    /\ (name = "__main__") ~> (pc = "done" /\ out = ExpectedOutput)

C8_Witness ==
    /\ name = "__main__"
    /\ pc = "done"
    /\ Len(out) = 3
    /\ out[3] = <<"SportsWalking", "1.000", "5.850", "5.850", "157.500">>

====
